---- MODULE Spec2Model ----
(***************************************************************************)
(* Model of rusty-renderer: the winit event loop of main.rs driving        *)
(* State (state.rs), and the procedural mesh generators of model.rs.       *)
(*                                                                         *)
(* Two specifications share the module:                                    *)
(*   Spec      the event loop: startup render, device events, window       *)
(*             events, redraw.                                             *)
(*   MeshSpec  the generators Model::cube / plane / house / surface.       *)
(***************************************************************************)
EXTENDS Integers, Sequences, FiniteSets, TLC

\* ------------------------------------------------------------------------
\* Bounds
\* ------------------------------------------------------------------------
\* largest window dimension (pixels) carried by a resize event
MaxDim == 2
\* generator lengths (size, width, length, height, max) range over
\* 0.5, 1.0, ..., MaxSize * 0.5
MaxSize == 4
\* largest --count handed to Model::surface
MaxCount == 4
\* the random source is sampled through the seeds 0..MaxSeed
MaxSeed == 2
\* the camera's poses are told apart modulo CameraPoses
CameraPoses == 2

\* ------------------------------------------------------------------------
\* State
\* ------------------------------------------------------------------------
VARIABLES
  pc,             \* position of main: "startup", "running", "exited", "panicked"
  control_flow,   \* *control_flow of the event loop closure
  size,           \* State.size
  config,         \* State.config (width, height)
  surface_configured,  \* State.surface: what it was last configured with
  renderer,       \* Renderer: dimensions of its depth / resize-dependent target
  projection,     \* Projection: the (width, height) its aspect is computed from
  mouse_pressed,  \* State.mouse_pressed
  lastEvent,      \* the event the closure handled last
  lastButton1,    \* state of the most recent Button{button: 1} event seen so far
  lastRender,     \* result of the most recent State.render
  calls,          \* calls made on collaborators while handling lastEvent, in order
  camera_rig,     \* State.camera_rig: the camera and its controller
  camera_uniform, \* the renderer's camera uniform (view-projection)
  frame,          \* the uniform the frame rendered while handling lastEvent used
  model           \* the Model built last by a generator of model.rs

loopVars == <<pc, control_flow, size, config, surface_configured, renderer, projection,
              mouse_pressed, lastEvent, lastButton1, lastRender, calls,
              camera_rig, camera_uniform, frame>>
vars == <<pc, control_flow, size, config, surface_configured, renderer, projection,
          mouse_pressed, lastEvent, lastButton1, lastRender, calls,
          camera_rig, camera_uniform, frame, model>>

\* winit::dpi::PhysicalSize<u32>
PhysicalSize(w, h) == [width |-> w, height |-> h]

\* sizes an event may carry (zero included: a minimised window reports 0)
EventSizes == {PhysicalSize(w, h) : w \in 0..MaxDim, h \in 0..MaxDim}

\* sizes window.inner_size() reports for a freshly built window
WindowSizes == {PhysicalSize(w, h) : w \in 1..MaxDim, h \in 1..MaxDim}

\* wgpu::SurfaceError
SurfaceErrors == {"Timeout", "Outdated", "Lost", "OutOfMemory"}

\* Result<(), wgpu::SurfaceError>
RenderResults == {"Ok"} \cup SurfaceErrors

\* no generator has run
NoModel == [name |-> "none", args |-> <<>>, meshes |-> <<>>]

\* ------------------------------------------------------------------------
\* Collaborators of State that are specified only at their boundary
\* ------------------------------------------------------------------------
\* Projection::new / Projection::resize: keeps the dimensions of the aspect
ProjectionResize(w, h) == [width |-> w, height |-> h]

\* aspect ratio width / height as a fraction
Aspect(p) == <<p.width, p.height>>

\* Renderer::new / Renderer::resize: depth target sized from the config
RendererResize(cfg) == [depth_width |-> cfg.width, depth_height |-> cfg.height]

\* Renderer::update_camera_uniform: Projection * View of the camera given
ViewProj(camera, proj) == [view |-> camera, proj |-> Aspect(proj)]

\* CameraRig::new: the camera at its first pose, a controller with no input
NewCameraRig ==
  [camera |-> 0,
   controller |-> [moving |-> FALSE, rotate |-> FALSE, scroll |-> FALSE]]

\* CameraController::process_keyboard / process_mouse / process_scroll
ProcessKeyboard(controller, state) ==
  [controller EXCEPT !.moving = (state = "Pressed")]
ProcessMouse(controller) == [controller EXCEPT !.rotate = TRUE]
ProcessScroll(controller) == [controller EXCEPT !.scroll = TRUE]

\* CameraController::update_camera: applies the held movement and the
\* accumulated rotation and zoom to the camera, then clears the one-shot deltas
UpdateCamera(rig) ==
  LET c == rig.controller
      delta == (IF c.moving THEN 1 ELSE 0) + (IF c.rotate THEN 1 ELSE 0)
               + (IF c.scroll THEN 1 ELSE 0)
  IN [camera |-> (rig.camera + delta) % CameraPoses,
      controller |-> [c EXCEPT !.rotate = FALSE, !.scroll = FALSE]]

\* surface.configure(&device, &config)
SurfaceConfigure(cfg) == [width |-> cfg.width, height |-> cfg.height]

\* ------------------------------------------------------------------------
\* State::new
\* ------------------------------------------------------------------------
StateNew(window_size) ==
  /\ size = window_size
  /\ config = [width |-> window_size.width, height |-> window_size.height]
  /\ surface_configured = SurfaceConfigure(config)
  /\ projection = ProjectionResize(config.width, config.height)
  /\ renderer = RendererResize(config)
  /\ camera_rig = NewCameraRig
  /\ camera_uniform = ViewProj(camera_rig.camera, projection)
  /\ mouse_pressed = FALSE

Init ==
  /\ \E ws \in WindowSizes : StateNew(ws)
  /\ pc = "startup"
  /\ control_flow = "Poll"
  /\ lastEvent = [kind |-> "None"]
  /\ lastButton1 = "None"
  /\ lastRender = "None"
  /\ calls = <<>>
  /\ frame = "None"
  /\ model = NoModel

\* ------------------------------------------------------------------------
\* State::resize
\* ------------------------------------------------------------------------
\* prior: the calls the running handler made before it called resize
\* resize with the guard on the width alone
resize_width_only(new_size, prior) ==
  IF new_size.width > 0
  THEN /\ size' = new_size
       /\ config' = [config EXCEPT !.width = new_size.width,
                                   !.height = new_size.height]
       /\ surface_configured' = SurfaceConfigure(config')
       /\ renderer' = RendererResize(config')
       /\ projection' = ProjectionResize(new_size.width, new_size.height)
       /\ calls' = prior \o <<"surface.configure", "renderer.resize",
                              "projection.resize">>
  ELSE /\ UNCHANGED <<size, config, surface_configured, renderer, projection>>
       /\ calls' = prior

\* resize that forgets self.renderer.resize
resize_stale_depth(new_size, prior) ==
  IF new_size.width > 0 /\ new_size.height > 0
  THEN /\ size' = new_size
       /\ config' = [config EXCEPT !.width = new_size.width,
                                   !.height = new_size.height]
       /\ surface_configured' = SurfaceConfigure(config')
       /\ renderer' = renderer
       /\ projection' = ProjectionResize(new_size.width, new_size.height)
       /\ calls' = prior \o <<"surface.configure", "projection.resize">>
  ELSE /\ UNCHANGED <<size, config, surface_configured, renderer, projection>>
       /\ calls' = prior

resize(new_size, prior) ==
  IF new_size.width > 0 /\ new_size.height > 0
  THEN /\ size' = new_size
       /\ config' = [config EXCEPT !.width = new_size.width,
                                   !.height = new_size.height]
       /\ surface_configured' = SurfaceConfigure(config')
       /\ renderer' = RendererResize(config')
       /\ projection' = ProjectionResize(new_size.width, new_size.height)
       /\ calls' = prior \o <<"surface.configure", "renderer.resize",
                              "projection.resize">>
  ELSE /\ UNCHANGED <<size, config, surface_configured, renderer, projection>>
       /\ calls' = prior

\* ------------------------------------------------------------------------
\* State::input
\* ------------------------------------------------------------------------
ElementStates == {"Pressed", "Released"}

\* winit::event::DeviceEvent, as far as input tells its variants apart
DeviceEvents ==
  {[kind |-> "Key", keycode |-> k, state |-> s] :
      k \in {"Some", "None"}, s \in ElementStates}
  \cup {[kind |-> "MouseWheel"]}
  \cup {[kind |-> "Button", button |-> b, state |-> s] :
      b \in {1, 2}, s \in ElementStates}
  \cup {[kind |-> "MouseMotion"]}
  \cup {[kind |-> "Added"]}

\* the camera controller call input makes for the event, if any
InputCalls(event) ==
  CASE event.kind = "Key" /\ event.keycode = "Some" -> <<"process_keyboard">>
    [] event.kind = "MouseWheel" -> <<"process_scroll">>
    [] event.kind = "MouseMotion" /\ mouse_pressed -> <<"process_mouse">>
    [] OTHER -> <<>>

\* input whose Button arm matches every button
input_any_button(event) ==
  /\ mouse_pressed' = IF event.kind = "Button"
                      THEN (event.state = "Pressed")
                      ELSE mouse_pressed
  /\ calls' = InputCalls(event)
  /\ camera_rig' =
       [camera_rig EXCEPT !.controller =
          CASE event.kind = "Key" /\ event.keycode = "Some" ->
                 ProcessKeyboard(@, event.state)
            [] event.kind = "MouseWheel" -> ProcessScroll(@)
            [] event.kind = "MouseMotion" /\ mouse_pressed -> ProcessMouse(@)
            [] OTHER -> @]

input(event) ==
  /\ mouse_pressed' = IF event.kind = "Button" /\ event.button = 1
                      THEN (event.state = "Pressed")
                      ELSE mouse_pressed
  /\ calls' = InputCalls(event)
  /\ camera_rig' =
       [camera_rig EXCEPT !.controller =
          CASE event.kind = "Key" /\ event.keycode = "Some" ->
                 ProcessKeyboard(@, event.state)
            [] event.kind = "MouseWheel" -> ProcessScroll(@)
            [] event.kind = "MouseMotion" /\ mouse_pressed -> ProcessMouse(@)
            [] OTHER -> @]

\* ------------------------------------------------------------------------
\* State::update and State::render
\* ------------------------------------------------------------------------
UpdateCalls == <<"update_camera", "update_camera_uniform", "renderer.update">>

\* update that recomputes the uniform before the controller is applied
update_uniform_first ==
  /\ camera_uniform' = ViewProj(camera_rig.camera, projection)
  /\ camera_rig' = UpdateCamera(camera_rig)

update ==
  /\ camera_rig' = UpdateCamera(camera_rig)
  /\ camera_uniform' = ViewProj(camera_rig'.camera, projection)

\* the frame render presents: drawn with the uniform as it is at the call
RenderFrame(result, uniform) == IF result = "Ok" THEN uniform ELSE "None"

\* render: get_current_frame()? returns early on an error
RenderCalls(result) ==
  IF result = "Ok" THEN <<"get_current_frame", "renderer.render">>
  ELSE <<"get_current_frame">>

\* ------------------------------------------------------------------------
\* main
\* ------------------------------------------------------------------------
\* state.render().unwrap() before the event loop starts
InitialRender ==
  /\ pc = "startup"
  /\ \E result \in RenderResults :
       /\ lastRender' = result
       /\ calls' = RenderCalls(result)
       /\ frame' = RenderFrame(result, camera_uniform)
       /\ pc' = IF result = "Ok" THEN "running" ELSE "panicked"
  /\ lastEvent' = [kind |-> "InitialRender"]
  /\ UNCHANGED <<control_flow, size, config, surface_configured, renderer, projection,
                 mouse_pressed, lastButton1, camera_rig, camera_uniform, model>>

\* what the loop does once the closure returned with the given control flow
AfterCallback(cf) == IF cf = "Exit" THEN "exited" ELSE "running"

\* Event::DeviceEvent => state.input(event)
OnDeviceEvent ==
  /\ pc = "running"
  /\ \E event \in DeviceEvents :
       /\ input(event)
       /\ lastEvent' = [kind |-> "DeviceEvent", event |-> event]
       /\ lastButton1' = IF event.kind = "Button" /\ event.button = 1
                         THEN event.state ELSE lastButton1
  /\ control_flow' = "Poll"
  /\ pc' = AfterCallback(control_flow')
  /\ frame' = "None"
  /\ UNCHANGED <<size, config, surface_configured, renderer, projection, lastRender,
                 camera_uniform, model>>

\* WindowEvent::CloseRequested | KeyboardInput{Pressed, Escape}
OnCloseOrEscape ==
  /\ pc = "running"
  /\ \E k \in {"CloseRequested", "Escape"} :
       lastEvent' = [kind |-> "WindowEvent", event |-> k]
  /\ control_flow' = "Exit"
  /\ pc' = AfterCallback(control_flow')
  /\ calls' = <<>>
  /\ frame' = "None"
  /\ UNCHANGED <<size, config, surface_configured, renderer, projection, mouse_pressed,
                 lastButton1, lastRender, camera_rig, camera_uniform, model>>

\* WindowEvent::Resized(physical_size) => state.resize(*physical_size)
OnResized ==
  /\ pc = "running"
  /\ \E physical_size \in EventSizes :
       /\ resize(physical_size, <<>>)
       /\ lastEvent' = [kind |-> "Resized", new_size |-> physical_size]
  /\ control_flow' = "Poll"
  /\ pc' = AfterCallback(control_flow')
  /\ frame' = "None"
  /\ UNCHANGED <<mouse_pressed, lastButton1, lastRender, camera_rig, camera_uniform,
                 model>>

\* WindowEvent::ScaleFactorChanged{new_inner_size} => state.resize(**new_inner_size)
OnScaleFactorChanged ==
  /\ pc = "running"
  /\ \E new_inner_size \in EventSizes :
       /\ resize(new_inner_size, <<>>)
       /\ lastEvent' = [kind |-> "ScaleFactorChanged", new_size |-> new_inner_size]
  /\ control_flow' = "Poll"
  /\ pc' = AfterCallback(control_flow')
  /\ frame' = "None"
  /\ UNCHANGED <<mouse_pressed, lastButton1, lastRender, camera_rig, camera_uniform,
                 model>>

\* Event::RedrawRequested: update, render, then the match on render's result
OnRedrawRequested ==
  /\ pc = "running"
  /\ update
  /\ \E result \in RenderResults :
       /\ lastRender' = result
       /\ frame' = RenderFrame(result, camera_uniform')
       /\ CASE result = "Lost" ->
                 /\ resize(size, UpdateCalls \o RenderCalls(result))
                 /\ control_flow' = "Poll"
            [] result = "OutOfMemory" ->
                 /\ calls' = UpdateCalls \o RenderCalls(result)
                 /\ control_flow' = "Exit"
                 /\ UNCHANGED <<size, config, surface_configured, renderer, projection>>
            [] result = "Ok" ->
                 /\ calls' = UpdateCalls \o RenderCalls(result)
                 /\ control_flow' = "Poll"
                 /\ UNCHANGED <<size, config, surface_configured, renderer, projection>>
            [] OTHER ->
                 /\ calls' = UpdateCalls \o RenderCalls(result) \o <<"eprintln">>
                 /\ control_flow' = "Poll"
                 /\ UNCHANGED <<size, config, surface_configured, renderer, projection>>
  /\ lastEvent' = [kind |-> "RedrawRequested"]
  /\ pc' = AfterCallback(control_flow')
  /\ UNCHANGED <<mouse_pressed, lastButton1, model>>

\* Event::MainEventsCleared => window.request_redraw()
OnMainEventsCleared ==
  /\ pc = "running"
  /\ lastEvent' = [kind |-> "MainEventsCleared"]
  /\ calls' = <<"window.request_redraw">>
  /\ control_flow' = "Poll"
  /\ pc' = AfterCallback(control_flow')
  /\ frame' = "None"
  /\ UNCHANGED <<size, config, surface_configured, renderer, projection, mouse_pressed,
                 lastButton1, lastRender, camera_rig, camera_uniform, model>>

\* every other event (the `_ => {}` arms)
OnOtherEvent ==
  /\ pc = "running"
  /\ lastEvent' = [kind |-> "Other"]
  /\ calls' = <<>>
  /\ control_flow' = "Poll"
  /\ pc' = AfterCallback(control_flow')
  /\ frame' = "None"
  /\ UNCHANGED <<size, config, surface_configured, renderer, projection, mouse_pressed,
                 lastButton1, lastRender, camera_rig, camera_uniform, model>>

Next ==
  \/ InitialRender
  \/ OnDeviceEvent
  \/ OnCloseOrEscape
  \/ OnResized
  \/ OnScaleFactorChanged
  \/ OnRedrawRequested
  \/ OnMainEventsCleared
  \/ OnOtherEvent

Spec == Init /\ [][Next]_vars


\* ------------------------------------------------------------------------
\* f32 and cgmath::Vector3<f32>, in fixed point
\* ------------------------------------------------------------------------
\* a real r is kept as the integer r * Scale
Scale == 1000

\* division rounding towards zero
TDiv(a, b) == IF a >= 0 THEN a \div b ELSE -((-a) \div b)

\* a * b and a / b on fixed-point reals
FMul(a, b) == TDiv(a * b, Scale)
FDiv(a, b) == TDiv(a * Scale, b)

RECURSIVE SqrtSearch(_, _, _)
SqrtSearch(n, lo, hi) ==
  IF lo >= hi THEN lo
  ELSE LET mid == (lo + hi + 1) \div 2
       IN IF mid * mid <= n THEN SqrtSearch(n, mid, hi)
          ELSE SqrtSearch(n, lo, mid - 1)

\* floor of the square root
Isqrt(n) == SqrtSearch(n, 0, IF n < 46340 THEN n ELSE 46340)

unit_x == <<Scale, 0, 0>>
unit_y == <<0, Scale, 0>>
unit_z == <<0, 0, Scale>>

VAdd(a, b) == <<a[1] + b[1], a[2] + b[2], a[3] + b[3]>>
VSub(a, b) == <<a[1] - b[1], a[2] - b[2], a[3] - b[3]>>
VNeg(a) == <<-a[1], -a[2], -a[3]>>
\* scalar * vector
VScale(k, a) == <<FMul(k, a[1]), FMul(k, a[2]), FMul(k, a[3])>>
Cross(a, b) == <<FMul(a[2], b[3]) - FMul(a[3], b[2]),
                 FMul(a[3], b[1]) - FMul(a[1], b[3]),
                 FMul(a[1], b[2]) - FMul(a[2], b[1])>>
Magnitude(a) == Isqrt(a[1] * a[1] + a[2] * a[2] + a[3] * a[3])
\* InnerSpace::normalize
Normalize(a) == LET m == Magnitude(a)
                IN <<FDiv(a[1], m), FDiv(a[2], m), FDiv(a[3], m)>>

\* ------------------------------------------------------------------------
\* MeshBuilder
\* ------------------------------------------------------------------------
\* MeshBuilder::new
NewBuilder(name) == [name |-> name, vertices |-> <<>>, indices |-> <<>>]

MeshVertex(p, n) == [position |-> p, normal |-> n]

\* three vertices sharing the face normal (b - a) x (c - a), one triangle
add_triangle(builder, a, b, c) ==
  LET n == Normalize(Cross(VSub(b, a), VSub(c, a)))
      base == Len(builder.vertices)
  IN [builder EXCEPT
        !.vertices = @ \o <<MeshVertex(a, n), MeshVertex(b, n), MeshVertex(c, n)>>,
        !.indices = @ \o <<base, base + 1, base + 2>>]

\* four vertices sharing the face normal edge1 x edge2, and the triangles
\* (origin, origin+edge1, origin+edge1+edge2), (origin, origin+edge1+edge2, origin+edge2)
add_quad(builder, origin, edge1, edge2) ==
  LET n == Normalize(Cross(edge1, edge2))
      base == Len(builder.vertices)
      p1 == VAdd(origin, edge1)
      p2 == VAdd(VAdd(origin, edge1), edge2)
      p3 == VAdd(origin, edge2)
  IN [builder EXCEPT
        !.vertices = @ \o <<MeshVertex(origin, n), MeshVertex(p1, n),
                            MeshVertex(p2, n), MeshVertex(p3, n)>>,
        !.indices = @ \o <<base, base + 1, base + 2, base, base + 2, base + 3>>]

\* one new vertex; with link, two triangles over the vertices at
\* current - 1, current - row_stride and current - row_stride - 1
add_linked_quad(builder, position, link, row_stride) ==
  LET current == Len(builder.vertices)
      west == current - 1
      south == current - row_stride
      south_west == current - row_stride - 1
  IN [builder EXCEPT
        !.vertices = @ \o <<MeshVertex(position, <<0, 0, 0>>)>>,
        !.indices = IF link
                    THEN @ \o <<south_west, south, current,
                                south_west, current, west>>
                    ELSE @]

\* MeshBuilder::build
build(builder) == [name |-> builder.name, vertices |-> builder.vertices,
                   indices |-> builder.indices]

\* ------------------------------------------------------------------------
\* Model::cube   (sz is the parameter size)
\* ------------------------------------------------------------------------
\* cube whose near corner is -size instead of -size / 2
cube_near_corner_off(sz) ==
  LET up == VScale(sz, unit_y)
      right == VScale(sz, unit_x)
      forward == VScale(sz, unit_z)
      near_corner == <<-sz, -sz, -sz>>
      far_corner == <<FDiv(sz, 2 * Scale), FDiv(sz, 2 * Scale),
                      FDiv(sz, 2 * Scale)>>
      b1 == add_quad(NewBuilder("Cube"), near_corner, forward, right)
      b2 == add_quad(b1, near_corner, right, up)
      b3 == add_quad(b2, near_corner, up, forward)
      b4 == add_quad(b3, far_corner, VNeg(right), VNeg(forward))
      b5 == add_quad(b4, far_corner, VNeg(up), VNeg(right))
      b6 == add_quad(b5, far_corner, VNeg(forward), VNeg(up))
  IN <<build(b6)>>

cube(sz) ==
  LET up == VScale(sz, unit_y)
      right == VScale(sz, unit_x)
      forward == VScale(sz, unit_z)
      near_corner == <<-FDiv(sz, 2 * Scale), -FDiv(sz, 2 * Scale),
                       -FDiv(sz, 2 * Scale)>>
      far_corner == <<FDiv(sz, 2 * Scale), FDiv(sz, 2 * Scale),
                      FDiv(sz, 2 * Scale)>>
      b1 == add_quad(NewBuilder("Cube"), near_corner, forward, right)
      b2 == add_quad(b1, near_corner, right, up)
      b3 == add_quad(b2, near_corner, up, forward)
      b4 == add_quad(b3, far_corner, VNeg(right), VNeg(forward))
      b5 == add_quad(b4, far_corner, VNeg(up), VNeg(right))
      b6 == add_quad(b5, far_corner, VNeg(forward), VNeg(up))
  IN <<build(b6)>>

\* ------------------------------------------------------------------------
\* Model::plane
\* ------------------------------------------------------------------------
plane(sz) ==
  LET b1 == add_quad(NewBuilder("Plane"),
                     <<-FDiv(sz, 2 * Scale), 0, -FDiv(sz, 2 * Scale)>>,
                     <<sz, 0, 0>>,
                     <<0, 0, sz>>)
  IN <<build(b1)>>

\* ------------------------------------------------------------------------
\* Model::house
\* ------------------------------------------------------------------------
\* let roof_overhang = 0.2
roof_overhang == 200
\* the 0.001 the roof is raised by against z-fighting
roof_bias == 1

\* house that emits the left roof panel twice with the same winding
house_same_winding(width, length, height) ==
  LET up == VScale(height, unit_y)
      right == VScale(width, unit_x)
      forward0 == VScale(length, unit_z)
      near_corner == <<-FDiv(width, 2 * Scale), 0, -FDiv(length, 2 * Scale)>>
      far_corner == <<FDiv(width, 2 * Scale), height, FDiv(length, 2 * Scale)>>
      b1 == add_quad(NewBuilder("House"), near_corner, right, up)
      b2 == add_quad(b1, near_corner, up, forward0)
      b3 == add_quad(b2, far_corner, VNeg(up), VNeg(right))
      b4 == add_quad(b3, far_corner, VNeg(forward0), VNeg(up))
      wall_top_left == VAdd(near_corner, up)
      wall_top_right == VAdd(wall_top_left, right)
      roof_peak0 == VAdd(VAdd(wall_top_left, VScale(Scale \div 2, up)),
                         VScale(FDiv(width, 2 * Scale), right))
      b5 == add_triangle(b4, wall_top_left, roof_peak0, wall_top_right)
      b6 == add_triangle(b5, VAdd(wall_top_left, forward0),
                         VAdd(wall_top_right, forward0),
                         VAdd(roof_peak0, forward0))
      from_peak_left0 == VSub(wall_top_left, roof_peak0)
      from_peak_right0 == VSub(wall_top_right, roof_peak0)
      from_peak_left == VAdd(from_peak_left0,
                             VScale(roof_overhang, Normalize(from_peak_left0)))
      from_peak_right == VAdd(from_peak_right0,
                              VScale(roof_overhang, Normalize(from_peak_right0)))
      roof_peak1 == VSub(roof_peak0, VScale(roof_overhang, unit_z))
      roof_peak == VAdd(roof_peak1, VScale(roof_bias, unit_y))
      forward == VAdd(forward0, VScale(2 * Scale, VScale(roof_overhang, unit_z)))
      b7 == add_quad(b6, roof_peak, forward, from_peak_left)
      b8 == add_quad(b7, roof_peak, forward, from_peak_left)
      b9 == add_quad(b8, roof_peak, from_peak_right, forward)
      b10 == add_quad(b9, roof_peak, forward, from_peak_right)
  IN <<build(b10)>>

house(width, length, height) ==
  LET up == VScale(height, unit_y)
      right == VScale(width, unit_x)
      forward0 == VScale(length, unit_z)
      near_corner == <<-FDiv(width, 2 * Scale), 0, -FDiv(length, 2 * Scale)>>
      far_corner == <<FDiv(width, 2 * Scale), height, FDiv(length, 2 * Scale)>>
      b1 == add_quad(NewBuilder("House"), near_corner, right, up)
      b2 == add_quad(b1, near_corner, up, forward0)
      b3 == add_quad(b2, far_corner, VNeg(up), VNeg(right))
      b4 == add_quad(b3, far_corner, VNeg(forward0), VNeg(up))
      wall_top_left == VAdd(near_corner, up)
      wall_top_right == VAdd(wall_top_left, right)
      roof_peak0 == VAdd(VAdd(wall_top_left, VScale(Scale \div 2, up)),
                         VScale(FDiv(width, 2 * Scale), right))
      b5 == add_triangle(b4, wall_top_left, roof_peak0, wall_top_right)
      b6 == add_triangle(b5, VAdd(wall_top_left, forward0),
                         VAdd(wall_top_right, forward0),
                         VAdd(roof_peak0, forward0))
      from_peak_left0 == VSub(wall_top_left, roof_peak0)
      from_peak_right0 == VSub(wall_top_right, roof_peak0)
      from_peak_left == VAdd(from_peak_left0,
                             VScale(roof_overhang, Normalize(from_peak_left0)))
      from_peak_right == VAdd(from_peak_right0,
                              VScale(roof_overhang, Normalize(from_peak_right0)))
      roof_peak1 == VSub(roof_peak0, VScale(roof_overhang, unit_z))
      roof_peak == VAdd(roof_peak1, VScale(roof_bias, unit_y))
      forward == VAdd(forward0, VScale(2 * Scale, VScale(roof_overhang, unit_z)))
      b7 == add_quad(b6, roof_peak, forward, from_peak_left)
      b8 == add_quad(b7, roof_peak, from_peak_left, forward)
      b9 == add_quad(b8, roof_peak, from_peak_right, forward)
      b10 == add_quad(b9, roof_peak, forward, from_peak_right)
  IN <<build(b10)>>

\* ------------------------------------------------------------------------
\* Model::surface
\* ------------------------------------------------------------------------
\* rng.gen_range(0.0..height_max): the k-th sample of the source seeded seed
gen_range(seed, k, height_max) == ((seed + 1) * (7 * k + 3) * 37) % height_max

\* the loop body for the k-th grid point in emission order, and the rest
RECURSIVE surface_loop(_, _, _, _, _, _)
surface_loop(builder, k, count, sz, height_max, seed) ==
  LET half_count == count \div 2
      per_row == (half_count + 1) - (-half_count)
      i == -half_count + (k \div per_row)
      j == -half_count + (k % per_row)
      z == FMul(FMul(2 * Scale, sz), i * Scale)
      x == FMul(FMul(2 * Scale, sz), j * Scale)
      y == gen_range(seed, k, height_max)
      position == <<x, y, z>>
      link == i > -half_count /\ j > -half_count
  IN IF k >= per_row * per_row THEN builder
     ELSE surface_loop(add_linked_quad(builder, position, link, count + 1),
                       k + 1, count, sz, height_max, seed)

surface(count, sz, height_max, seed) ==
  <<build(surface_loop(NewBuilder("Quad Grid"), 0, count, sz, height_max, seed))>>

\* ------------------------------------------------------------------------
\* The generators as main runs them
\* ------------------------------------------------------------------------
\* the lengths a flag may carry: 0.5, 1.0, ...
Sizes == {k * (Scale \div 2) : k \in 1..MaxSize}
Counts == 0..MaxCount
Seeds == 0..MaxSeed

\* state.add_model_primitive(ModelPrimitive::Cube, cli.size)
AddCube ==
  /\ model = NoModel
  /\ \E sz \in Sizes :
       model' = [name |-> "Cube", args |-> <<sz>>, meshes |-> cube(sz)]
  /\ UNCHANGED loopVars

\* state.add_model_primitive(ModelPrimitive::Plane, cli.size)
AddPlane ==
  /\ model = NoModel
  /\ \E sz \in Sizes :
       model' = [name |-> "Plane", args |-> <<sz>>, meshes |-> plane(sz)]
  /\ UNCHANGED loopVars

\* state.add_house(cli.width, cli.length, cli.height)
AddHouse ==
  /\ model = NoModel
  /\ \E w \in Sizes, l \in Sizes, h \in Sizes :
       model' = [name |-> "House", args |-> <<w, l, h>>, meshes |-> house(w, l, h)]
  /\ UNCHANGED loopVars

\* state.add_surface(cli.count, cli.size, cli.max)
AddSurface ==
  /\ model = NoModel
  /\ \E n \in Counts, sz \in Sizes, hm \in Sizes, seed \in Seeds :
       model' = [name |-> "Surface", args |-> <<n, sz, hm>>,
                 meshes |-> surface(n, sz, hm, seed)]
  /\ UNCHANGED loopVars

MeshInit ==
  /\ StateNew(PhysicalSize(MaxDim, MaxDim))
  /\ pc = "startup"
  /\ control_flow = "Poll"
  /\ lastEvent = [kind |-> "None"]
  /\ lastButton1 = "None"
  /\ lastRender = "None"
  /\ calls = <<>>
  /\ frame = "None"
  /\ model = NoModel

MeshNext == AddCube \/ AddPlane \/ AddHouse \/ AddSurface

MeshSpec == MeshInit /\ [][MeshNext]_vars


\* ------------------------------------------------------------------------
\* Properties of the event loop (checked under Spec)
\* ------------------------------------------------------------------------
InCalls(c) == \E i \in 1..Len(calls) : calls[i] = c

\* C1: a resize to zero width or zero height changes nothing (size, config,
\* the renderer's targets, the projection; the surface is not reconfigured);
\* a resize to positive dimensions sets size and config to them and resizes
\* the projection with exactly (width, height), so its aspect is width/height.
C1_ResizeContract ==
  [][lastEvent'.kind \in {"Resized", "ScaleFactorChanged"} =>
       LET new_size == lastEvent'.new_size
       IN IF new_size.width = 0 \/ new_size.height = 0
          THEN /\ UNCHANGED <<size, config, surface_configured, renderer, projection>>
               /\ calls' = <<>>
          ELSE /\ size' = new_size
               /\ config'.width = new_size.width
               /\ config'.height = new_size.height
               /\ Aspect(projection') = <<new_size.width, new_size.height>>
               /\ InCalls("projection.resize")']_vars

C1_Witness ==
  /\ lastEvent.kind = "Resized"
  /\ lastEvent.new_size.width > 0
  /\ lastEvent.new_size.height = 0
  /\ size.height > 0
  /\ calls = <<>>

\* C2: every result of render is handled by the taxonomy: Lost reconfigures
\* and the loop goes on, OutOfMemory sets the control flow to Exit, any other
\* error is logged and the loop goes on; Lost and other errors never end the
\* application.
C2_ErrorTaxonomy ==
  lastEvent.kind \in {"InitialRender", "RedrawRequested"} =>
    /\ lastRender = "Lost" => (pc = "running" /\ InCalls("surface.configure"))
    /\ lastRender = "OutOfMemory" => control_flow = "Exit"
    /\ lastRender \in {"Timeout", "Outdated"} =>
         (pc = "running" /\ InCalls("eprintln"))

\* C3: whenever render can be called, the surface configuration, the
\* renderer's depth target, the projection and State.size describe the same
\* positive width and height.
C3_DimensionsAgree ==
  pc \in {"startup", "running"} =>
    /\ size.width > 0 /\ size.height > 0
    /\ config.width = size.width /\ config.height = size.height
    /\ surface_configured.width = size.width
    /\ surface_configured.height = size.height
    /\ renderer.depth_width = size.width
    /\ renderer.depth_height = size.height
    /\ projection.width = size.width /\ projection.height = size.height

C3_Witness ==
  /\ pc = "running"
  /\ lastEvent.kind = "ScaleFactorChanged"
  /\ lastEvent.new_size = size
  /\ renderer.depth_width = size.width
  /\ size.width # size.height

\* C10 as stated: a MouseMotion is forwarded to process_mouse iff the most
\* recent Button{button: 1} event had state Pressed, and keyboard and scroll
\* events are always forwarded.
C10_Original ==
  lastEvent.kind = "DeviceEvent" =>
    LET event == lastEvent.event
    IN /\ event.kind = "MouseMotion" =>
            (InCalls("process_mouse") <=> lastButton1 = "Pressed")
       /\ event.kind = "Key" => InCalls("process_keyboard")
       /\ event.kind = "MouseWheel" => InCalls("process_scroll")

\* C10 amended: a MouseMotion is forwarded to process_mouse iff the most
\* recent Button{button: 1} event had state Pressed; keyboard events that
\* carry a virtual key code, and scroll events, are always forwarded.
C10_MouseCapture ==
  lastEvent.kind = "DeviceEvent" =>
    LET event == lastEvent.event
    IN /\ event.kind = "MouseMotion" =>
            (InCalls("process_mouse") <=> lastButton1 = "Pressed")
       /\ (event.kind = "Key" /\ event.keycode = "Some") =>
            InCalls("process_keyboard")
       /\ event.kind = "MouseWheel" => InCalls("process_scroll")

C10_Witness ==
  /\ lastEvent.kind = "DeviceEvent"
  /\ lastEvent.event.kind = "MouseMotion"
  /\ lastButton1 = "Pressed"
  /\ InCalls("process_mouse")

\* C11: on every RedrawRequested the steps run in the order update_camera,
\* update_camera_uniform, render: after the event the uniform is the
\* view-projection of the camera as the controller left it in this very frame
\* and of the current projection, and a frame that was rendered used it.
C11_FrameUniform ==
  [][lastEvent'.kind = "RedrawRequested" =>
       /\ SubSeq(calls', 1, 4) = <<"update_camera", "update_camera_uniform",
                                   "renderer.update", "get_current_frame">>
       /\ camera_rig'.camera = UpdateCamera(camera_rig).camera
       /\ camera_uniform' = ViewProj(camera_rig'.camera, projection')
       /\ lastRender' = "Ok" =>
            /\ calls'[5] = "renderer.render"
            /\ frame' = ViewProj(camera_rig'.camera, projection')]_vars

C11_Witness ==
  /\ lastEvent.kind = "RedrawRequested"
  /\ lastRender = "Ok"
  /\ camera_rig.camera # NewCameraRig.camera
  /\ frame = ViewProj(camera_rig.camera, projection)
  /\ frame.proj[1] # frame.proj[2]

\* ------------------------------------------------------------------------
\* Properties of the generators (checked under MeshSpec)
\* ------------------------------------------------------------------------
Mesh1 == model.meshes[1]
\* position of the vertex an index refers to
PositionAt(idx) == Mesh1.vertices[idx + 1].position
Positions == {Mesh1.vertices[i].position : i \in 1..Len(Mesh1.vertices)}
Normals == {Mesh1.vertices[i].normal : i \in 1..Len(Mesh1.vertices)}
NumTriangles == Len(Mesh1.indices) \div 3
AxisUnits == {unit_x, unit_y, unit_z, VNeg(unit_x), VNeg(unit_y), VNeg(unit_z)}

\* C4: surface(count = N) emits (N+1)^2 vertices and 2 * N^2 triangles.
C4_SurfaceCounts ==
  model.name = "Surface" =>
    LET N == model.args[1]
    IN /\ Len(Mesh1.vertices) = (N + 1) * (N + 1)
       /\ Len(Mesh1.indices) = 3 * NumTriangles
       /\ NumTriangles = 2 * N * N

\* grid row and column of a surface vertex, from its z and x
GridRow(idx) == PositionAt(idx)[3] \div (2 * model.args[2])
GridCol(idx) == PositionAt(idx)[1] \div (2 * model.args[2])

\* C5: the indices a linked grid point refers to are all >= 0 and are those
\* of the already emitted vertices of its west, south and south-west
\* neighbours.
C5_LinkedIndices ==
  model.name = "Surface" =>
    \A t \in 0..(NumTriangles - 1) :
      LET tri == {Mesh1.indices[3 * t + 1], Mesh1.indices[3 * t + 2],
                  Mesh1.indices[3 * t + 3]}
          current == CHOOSE c \in tri : \A d \in tri : d <= c
      IN /\ \A d \in tri : d >= 0
         /\ \A d \in tri \ {current} :
              /\ d < current
              /\ <<GridRow(current) - GridRow(d), GridCol(current) - GridCol(d)>>
                   \in {<<0, 1>>, <<1, 0>>, <<1, 1>>}

\* C6: cube(size) is one mesh of 6 quads = 12 triangles, every position in
\* [-size/2, size/2]^3, the face normals are the 6 axis-aligned unit vectors,
\* and with every position p the mesh has -p.
C6_Cube ==
  model.name = "Cube" =>
    LET half == FDiv(model.args[1], 2 * Scale)
    IN /\ Len(model.meshes) = 1
       /\ Len(Mesh1.vertices) = 6 * 4
       /\ Len(Mesh1.indices) = 12 * 3
       /\ \A p \in Positions : \A a \in 1..3 : p[a] >= -half /\ p[a] <= half
       /\ Normals = AxisUnits
       /\ Cardinality(Normals) = 6
       /\ \A p \in Positions : VNeg(p) \in Positions

C6_Witness ==
  /\ model.name = "Cube"
  /\ model.args = <<2 * Scale>>
  /\ <<Scale, Scale, Scale>> \in Positions
  /\ <<-Scale, -Scale, -Scale>> \in Positions

\* C7: plane(S) is one quad with the 4 positions (+-S/2, 0, +-S/2) and the
\* face normal (0, 1, 0).
C7_Plane ==
  model.name = "Plane" =>
    LET half == FDiv(model.args[1], 2 * Scale)
    IN /\ Len(Mesh1.vertices) = 4
       /\ NumTriangles = 2
       /\ Positions = {<<x, 0, z>> : x \in {-half, half}, z \in {-half, half}}
       /\ Cardinality(Positions) = 4
       /\ Normals = {unit_y}

\* C8: the roof peak house computes first (the middle vertex of the front
\* gable triangle) is centred along the width, x = 0, and lies 0.5 * height
\* above the wall top, y = 1.5 * height.
C8_RoofPeakCentred ==
  model.name = "House" =>
    LET wall_top_left == PositionAt(16)
        roof_peak == PositionAt(17)
        wall_top_right == PositionAt(18)
        height == model.args[3]
    IN /\ 2 * roof_peak[1] = wall_top_left[1] + wall_top_right[1]
       /\ roof_peak[1] = 0
       /\ roof_peak[2] = wall_top_left[2] + FMul(Scale \div 2, height)
       /\ roof_peak[2] = FMul(3 * (Scale \div 2), height)

\* the triangles (as position triples) and the positions of the quad whose
\* indices start after the first off entries of the index stream
QuadTriangles(off) ==
  {<<PositionAt(Mesh1.indices[off + 3 * t + 1]),
     PositionAt(Mesh1.indices[off + 3 * t + 2]),
     PositionAt(Mesh1.indices[off + 3 * t + 3])>> : t \in 0..1}
QuadPositions(off) == {PositionAt(Mesh1.indices[off + i]) : i \in 1..6}
\* u is t with the winding reversed
ReversedWinding(t, u) ==
  u \in {<<t[1], t[3], t[2]>>, <<t[3], t[2], t[1]>>, <<t[2], t[1], t[3]>>}
MirrorQuads(offA, offB) ==
  /\ QuadPositions(offA) = QuadPositions(offB)
  /\ Cardinality(QuadPositions(offA)) = 4
  /\ \A t \in QuadTriangles(offA) : \E u \in QuadTriangles(offB) : ReversedWinding(t, u)
  /\ \A u \in QuadTriangles(offB) : \E t \in QuadTriangles(offA) : ReversedWinding(u, t)

\* C9: each roof slope of house is emitted as two quads over the same 4
\* positions, and every triangle of one is a triangle of the other with the
\* winding reversed.
C9_RoofMirror ==
  model.name = "House" =>
    /\ Len(Mesh1.indices) = 4 * 6 + 2 * 3 + 4 * 6
    /\ MirrorQuads(30, 36)
    /\ MirrorQuads(42, 48)

C9_Witness ==
  /\ model.name = "House"
  /\ model.args = <<Scale, Scale, Scale>>
  /\ Len(Mesh1.vertices) = 38
  /\ QuadTriangles(30) # QuadTriangles(36)

====
